---------------------------- MODULE Spec2Model ----------------------------
(***************************************************************************)
(* Bi-directional synchronisation of Opportunity / Lead records between    *)
(* the Partner and the Raintree Salesforce org.                            *)
(*                                                                         *)
(*   backend  services/sync.ts     SyncService (the pass, the policy)      *)
(*   backend  routes/sync.ts       POST /api/sync/detect-changes           *)
(*   frontend services/salesforce  SalesforceAPI.detectAndSyncChanges      *)
(*   frontend App.tsx              the polling trigger                     *)
(*                                                                         *)
(* Timestamps are ISO strings in the code; here a parseable timestamp is   *)
(* a natural number (a logical clock that ticks on every remote write), an *)
(* unparseable one is Invalid, an absent field is Null.                    *)
(***************************************************************************)
EXTENDS Integers, Sequences, FiniteSets, TLC

(***************************************************************************)
(* Bounds of the model.                                                    *)
(***************************************************************************)
MaxClock     == 4     \* one mapping: the logical clock stops ticking here
MaxEdits     == 3     \* one mapping: genuine user edits in one behaviour
MaxCalmEdits == 2     \* genuine user edits before the edits stop
MaxPairClock == 3     \* two mappings: the logical clock stops ticking here
MaxPairEdits == 2     \* two mappings: genuine user edits in one behaviour
MaxStamp     == 2     \* largest timestamp drawn for the policy's inputs
MaxInFlight  == 3     \* sync requests the browser may have outstanding
MaxCalls     == 2     \* calls of the policy on the same drawn inputs
MaxFetches   == 2     \* Raintree calls one pass makes in one request

\* the mapped record pairs of the kind under sync
Ids == {1, 2}

Kinds == {"opportunity", "lead"}

Null    == -1         \* an absent (undefined) field
Invalid == -2         \* a string new Date() cannot parse
NaN     == -3         \* new Date(Invalid).getTime()

\* Map.get of an absent key (undefined)
NoRecord == [exists |-> FALSE, LastModifiedDate |-> Null, CreatedDate |-> Null,
             val |-> Null]

Directions == {"partner-to-raintree", "raintree-to-partner", "none", "conflict"}

Propagate == {"partner-to-raintree", "raintree-to-partner"}

RemoteErrors == {"REQUEST_LIMIT_EXCEEDED"}

VARIABLES
  kind,             \* the record kind of the pass that is modelled
  now,              \* logical clock
  edits,            \* genuine edits made so far
  partner,          \* Partner org: id -> record, or NoRecord
  raintree,         \* Raintree org: id -> record, or NoRecord
  store,            \* localStorage '<kind>_mappings': id -> SyncMapping
  pc,               \* phase of the pass
  mappings,         \* the pass's argument
  partnerMap,       \* partnerOppMap / partnerLeadMap
  raintreeMap,      \* raintreeOppMap / raintreeLeadMap
  idx,              \* position of the running for-loop
  results,          \* results: SyncResult[]
  updatedMappings,  \* updatedMappings
  updates,          \* remote update calls issued by the running pass
  watch,            \* the ids whose history is recorded
  prev,             \* what the previous request did (history)
  editedCur,        \* ids genuinely edited since the running/last pass started
  editedPrev,       \* ids genuinely edited during the pass before
  dKind, dPartner, dRaintree, dMapping,   \* inputs drawn for the policy
  dDone, dOut,                            \* and its answer, once computed
  dCalls, dFirst,                         \* the calls made, the first answer
  step,             \* App.tsx: the screen (3 is the dashboard)
  isPolling,        \* App.tsx: the React state isPolling
  effectIsPolling,  \* isPolling as the closure the timers call captured it
  effectStep,       \* step as that closure captured it
  timeoutArmed,     \* the initial 5 s timeout is pending
  intervalArmed,    \* the 10 s interval is running
  requests,         \* sync requests in flight, by phase
  service,          \* RaintreeSalesforceService.service: "none" (null), or
                    \* the pass whose authentication created the instance
  svcPc,            \* per kind: where its pass is inside a Raintree call
  held,             \* per kind: the instance getService returned to it
  fetches,          \* per kind: Raintree calls finished in this request
  auths,            \* logins made to the Raintree org
  svcReaders,       \* the passes that have read the static field
  svcWriters,       \* the passes that have written it
  wf,               \* the create / update / delete request being served
  patch             \* an update payload on its way to the losing record

passVars == <<pc, mappings, partnerMap, raintreeMap, idx, results,
              updatedMappings, updates>>
histVars == <<watch, prev, editedCur, editedPrev>>
remoteVars == <<now, edits, partner, raintree>>
decideVars == <<dKind, dPartner, dRaintree, dMapping, dDone, dOut,
                dCalls, dFirst>>
pollVars == <<step, isPolling, effectIsPolling, effectStep, timeoutArmed,
              intervalArmed, requests>>
serviceVars == <<service, svcPc, held, fetches, auths, svcReaders, svcWriters>>
requestVars == <<wf, patch>>
vars == <<kind, store, passVars, histVars, remoteVars, decideVars, pollVars,
          serviceVars, requestVars>>

(***************************************************************************)
(* Timestamps.                                                             *)
(***************************************************************************)

\* new Date(s).getTime(): the instant, NaN for a string that does not parse
GetTime(s) == IF s = Invalid \/ s = Null THEN NaN ELSE s

\* a > b on numbers: false whenever either side is NaN
Gt(a, b) == a # NaN /\ b # NaN /\ a > b

\* rec.LastModifiedDate || rec.CreatedDate
ObservedStamp(rec) ==
  IF rec.LastModifiedDate # Null THEN rec.LastModifiedDate ELSE rec.CreatedDate


(***************************************************************************)
(* The conflict resolution policy: the first half of syncOpportunityRecord *)
(* and of syncLeadRecord (the code holds the same text twice).             *)
(***************************************************************************)

\* faulty variant: an observed timestamp equal to the stored one counts as new
PartnerHasNewChanges_NonStrict(partnerRec, mapping) ==
  LET obs == GetTime(ObservedStamp(partnerRec))
      stored == GetTime(mapping.partnerLastModified)
  IN  obs # NaN /\ stored # NaN /\ obs >= stored

\* sync.ts 196, 307: partnerLastModified > storedPartnerModified
PartnerHasNewChanges(partnerRec, mapping) ==
  Gt(GetTime(ObservedStamp(partnerRec)), GetTime(mapping.partnerLastModified))

\* sync.ts 197, 308: raintreeLastModified > storedRaintreeModified
RaintreeHasNewChanges(raintreeRec, mapping) ==
  Gt(GetTime(ObservedStamp(raintreeRec)), GetTime(mapping.raintreeLastModified))

\* faulty variant: the anti-ping-pong guard is missing
DecideOpportunity_NoGuard(partnerOpp, raintreeOpp, mapping) ==
  LET p == PartnerHasNewChanges(partnerOpp, mapping)
      r == RaintreeHasNewChanges(raintreeOpp, mapping)
  IN  IF p /\ r
        THEN IF Gt(GetTime(ObservedStamp(partnerOpp)), GetTime(ObservedStamp(raintreeOpp)))
               THEN [syncDirection |-> "partner-to-raintree", shouldSync |-> TRUE]
               ELSE [syncDirection |-> "raintree-to-partner", shouldSync |-> TRUE]
      ELSE IF p THEN [syncDirection |-> "partner-to-raintree", shouldSync |-> TRUE]
      ELSE IF r THEN [syncDirection |-> "raintree-to-partner", shouldSync |-> TRUE]
      ELSE [syncDirection |-> "none", shouldSync |-> FALSE]

\* faulty variant: a conflict is resolved by lastSyncSource, not by recency
DecideOpportunity_ConflictBySource(partnerOpp, raintreeOpp, mapping) ==
  LET p == PartnerHasNewChanges(partnerOpp, mapping)
      r == RaintreeHasNewChanges(raintreeOpp, mapping)
  IN  IF p /\ r
        THEN IF mapping.lastSyncSource # "raintree"
               THEN [syncDirection |-> "partner-to-raintree", shouldSync |-> TRUE]
               ELSE [syncDirection |-> "raintree-to-partner", shouldSync |-> TRUE]
      ELSE IF p
        THEN IF mapping.lastSyncSource # "raintree"
               THEN [syncDirection |-> "partner-to-raintree", shouldSync |-> TRUE]
               ELSE [syncDirection |-> "none", shouldSync |-> FALSE]
      ELSE IF r
        THEN IF mapping.lastSyncSource # "partner"
               THEN [syncDirection |-> "raintree-to-partner", shouldSync |-> TRUE]
               ELSE [syncDirection |-> "none", shouldSync |-> FALSE]
      ELSE [syncDirection |-> "none", shouldSync |-> FALSE]

\* syncOpportunityRecord, lines 190-226: syncDirection and shouldSync
DecideOpportunity(partnerOpp, raintreeOpp, mapping) ==
  LET partnerLastModified == GetTime(ObservedStamp(partnerOpp))
      raintreeLastModified == GetTime(ObservedStamp(raintreeOpp))
      partnerHasNewChanges == PartnerHasNewChanges(partnerOpp, mapping)
      raintreeHasNewChanges == RaintreeHasNewChanges(raintreeOpp, mapping)
  IN  IF partnerHasNewChanges /\ raintreeHasNewChanges
        THEN IF Gt(partnerLastModified, raintreeLastModified)
               THEN [syncDirection |-> "partner-to-raintree", shouldSync |-> TRUE]
               ELSE [syncDirection |-> "raintree-to-partner", shouldSync |-> TRUE]
      ELSE IF partnerHasNewChanges
        THEN IF mapping.lastSyncSource # "raintree"
               THEN [syncDirection |-> "partner-to-raintree", shouldSync |-> TRUE]
               ELSE [syncDirection |-> "none", shouldSync |-> FALSE]
      ELSE IF raintreeHasNewChanges
        THEN IF mapping.lastSyncSource # "partner"
               THEN [syncDirection |-> "raintree-to-partner", shouldSync |-> TRUE]
               ELSE [syncDirection |-> "none", shouldSync |-> FALSE]
      ELSE [syncDirection |-> "none", shouldSync |-> FALSE]

\* faulty variant: a tie between two changed sides goes to Partner
DecideLead_TieToPartner(partnerLead, raintreeLead, mapping) ==
  LET partnerLastModified == GetTime(ObservedStamp(partnerLead))
      raintreeLastModified == GetTime(ObservedStamp(raintreeLead))
      partnerHasNewChanges == PartnerHasNewChanges(partnerLead, mapping)
      raintreeHasNewChanges == RaintreeHasNewChanges(raintreeLead, mapping)
  IN  IF partnerHasNewChanges /\ raintreeHasNewChanges
        THEN IF Gt(raintreeLastModified, partnerLastModified)
               THEN [syncDirection |-> "raintree-to-partner", shouldSync |-> TRUE]
               ELSE [syncDirection |-> "partner-to-raintree", shouldSync |-> TRUE]
      ELSE IF partnerHasNewChanges
        THEN IF mapping.lastSyncSource # "raintree"
               THEN [syncDirection |-> "partner-to-raintree", shouldSync |-> TRUE]
               ELSE [syncDirection |-> "none", shouldSync |-> FALSE]
      ELSE IF raintreeHasNewChanges
        THEN IF mapping.lastSyncSource # "partner"
               THEN [syncDirection |-> "raintree-to-partner", shouldSync |-> TRUE]
               ELSE [syncDirection |-> "none", shouldSync |-> FALSE]
      ELSE [syncDirection |-> "none", shouldSync |-> FALSE]

\* syncLeadRecord, lines 301-335: syncDirection and shouldSync
DecideLead(partnerLead, raintreeLead, mapping) ==
  LET partnerLastModified == GetTime(ObservedStamp(partnerLead))
      raintreeLastModified == GetTime(ObservedStamp(raintreeLead))
      partnerHasNewChanges == PartnerHasNewChanges(partnerLead, mapping)
      raintreeHasNewChanges == RaintreeHasNewChanges(raintreeLead, mapping)
  IN  IF partnerHasNewChanges /\ raintreeHasNewChanges
        THEN IF Gt(partnerLastModified, raintreeLastModified)
               THEN [syncDirection |-> "partner-to-raintree", shouldSync |-> TRUE]
               ELSE [syncDirection |-> "raintree-to-partner", shouldSync |-> TRUE]
      ELSE IF partnerHasNewChanges
        THEN IF mapping.lastSyncSource # "raintree"
               THEN [syncDirection |-> "partner-to-raintree", shouldSync |-> TRUE]
               ELSE [syncDirection |-> "none", shouldSync |-> FALSE]
      ELSE IF raintreeHasNewChanges
        THEN IF mapping.lastSyncSource # "partner"
               THEN [syncDirection |-> "raintree-to-partner", shouldSync |-> TRUE]
               ELSE [syncDirection |-> "none", shouldSync |-> FALSE]
      ELSE [syncDirection |-> "none", shouldSync |-> FALSE]

\* the policy of the record kind k
Decide(k, partnerRec, raintreeRec, mapping) ==
  IF k = "opportunity"
    THEN DecideOpportunity(partnerRec, raintreeRec, mapping)
    ELSE DecideLead(partnerRec, raintreeRec, mapping)


(***************************************************************************)
(* One record of a pass: the second half of syncOpportunityRecord /        *)
(* syncLeadRecord and the body of the orchestrator's second loop.          *)
(***************************************************************************)

\* the error a failed update throws: RaintreeSalesforceService.updateX wraps
\* the gateway's message, SalesforceService.updateX throws it as it is
ErrorMessage(side, e) ==
  IF side = "raintree"
    THEN <<"Failed to update in Raintree Salesforce: ", "Salesforce API error: ", e>>
    ELSE <<"Salesforce API error: ", e>>

\* the side whose record receives the update of a decision
UpdateTarget(syncDirection) ==
  IF syncDirection = "partner-to-raintree" THEN "raintree" ELSE "partner"

\* syncOpportunityRecord 228-290, syncLeadRecord 337-401: the SyncResult;
\* outcome is "ok" or the error of the remote update, t is new Date()
SyncResultOf(partnerRec, mapping, decision, outcome, t) ==
  IF ~decision.shouldSync
    THEN [recordId |-> mapping.partnerId, recordName |-> partnerRec.val,
          syncDirection |-> "none", success |-> TRUE, error |-> <<>>,
          timestamp |-> t]
  ELSE IF outcome = "ok"
    THEN [recordId |-> mapping.partnerId, recordName |-> partnerRec.val,
          syncDirection |-> decision.syncDirection, success |-> TRUE,
          error |-> <<>>, timestamp |-> t]
    ELSE [recordId |-> mapping.partnerId, recordName |-> partnerRec.val,
          syncDirection |-> decision.syncDirection, success |-> FALSE,
          error |-> ErrorMessage(UpdateTarget(decision.syncDirection), outcome),
          timestamp |-> t]

\* faulty variant: the rewritten mapping loses its Raintree id
UpdatedMapping_LosesId(mapping, partnerRec, raintreeRec, syncResult) ==
  [mapping EXCEPT
     !.raintreeId = Null,
     !.partnerLastModified = ObservedStamp(partnerRec),
     !.raintreeLastModified = ObservedStamp(raintreeRec),
     !.lastSyncTime = syncResult.timestamp]

\* faulty variant: the mapping takes the winning side, not the timestamps
UpdatedMapping_SourceOnly(mapping, partnerRec, raintreeRec, syncResult) ==
  [mapping EXCEPT
     !.lastSyncSource =
        IF syncResult.syncDirection = "partner-to-raintree" THEN "partner"
        ELSE IF syncResult.syncDirection = "raintree-to-partner" THEN "raintree"
        ELSE mapping.lastSyncSource,
     !.lastSyncTime = syncResult.timestamp]

\* syncOpportunities 94-102, syncLeads 163-171: the mapping after a record
UpdatedMapping(mapping, partnerRec, raintreeRec, syncResult) ==
  [mapping EXCEPT
     !.partnerLastModified = ObservedStamp(partnerRec),
     !.raintreeLastModified = ObservedStamp(raintreeRec),
     !.lastSyncSource =
        IF syncResult.syncDirection = "partner-to-raintree" THEN "partner"
        ELSE IF syncResult.syncDirection = "raintree-to-partner" THEN "raintree"
        ELSE mapping.lastSyncSource,
     !.lastSyncTime = syncResult.timestamp]

\* Object.entries(mappings): the ids in their order
RECURSIVE Entries(_)
Entries(S) ==
  IF S = {} THEN <<>>
  ELSE LET m == CHOOSE x \in S : \A y \in S : x <= y
       IN  <<m>> \o Entries(S \ {m})

NoUpdates == [m \in Ids |-> [partner |-> 0, raintree |-> 0]]

NoPrev == [dir |-> [m \in Ids |-> "absent"], ok |-> [m \in Ids |-> TRUE],
           guarded |-> [m \in Ids |-> FALSE], persisted |-> FALSE]


(***************************************************************************)
(* The remote orgs.                                                        *)
(***************************************************************************)

\* the caps of a behaviour, by the number of mappings in the store
ClockCap == IF Cardinality(DOMAIN store) > 1 THEN MaxPairClock ELSE MaxClock

EditCap == IF Cardinality(DOMAIN store) > 1 THEN MaxPairEdits ELSE MaxEdits

\* a user edits a record in one org: Salesforce stamps LastModifiedDate.
\* Fetches do not advance the clock, so an edit made while the pass fetches
\* is the same edit made just before the pass or just after its fetches.
GenuineEdit(side, m) ==
  /\ pc \in {"Idle", "Reconciling"}
  /\ m \in DOMAIN store
  /\ edits < EditCap
  /\ now < ClockCap
  /\ IF side = "partner"
       THEN /\ partner[m].exists
            /\ partner' = [partner EXCEPT ![m].val = now + 1,
                                          ![m].LastModifiedDate = now + 1]
            /\ UNCHANGED raintree
       ELSE /\ raintree[m].exists
            /\ raintree' = [raintree EXCEPT ![m].val = now + 1,
                                            ![m].LastModifiedDate = now + 1]
            /\ UNCHANGED partner
  /\ now' = now + 1
  /\ edits' = edits + 1
  /\ editedCur' = [editedCur EXCEPT ![m] = (m \in watch)]
  /\ UNCHANGED <<kind, store, passVars, watch, prev, editedPrev, decideVars, pollVars,
                 serviceVars,
                 requestVars>>

(***************************************************************************)
(* A sync pass of one kind: SalesforceAPI.detectAndSyncChanges (frontend), *)
(* POST /detect-changes, SyncService.syncOpportunities / syncLeads.        *)
(***************************************************************************)

\* faulty variant: the pass goes back to fetching after it has processed a
\* mapping, one mapping at a time
AfterLoop_FetchPerRecord(i, again, after) ==
  IF i > Len(Entries(DOMAIN mappings)) THEN after ELSE "FetchingRaintree"

\* the phase after a loop over the mappings has reached position i
AfterLoop(i, again, after) ==
  IF i > Len(Entries(DOMAIN mappings)) THEN after ELSE again

\* frontend 586-597 reads the store and posts it; sync.ts 51-52 starts the pass
StartPass ==
  /\ pc = "Idle"
  /\ mappings' = store
  /\ results' = <<>>
  /\ updatedMappings' = store
  /\ updates' = NoUpdates
  /\ partnerMap' = [m \in Ids |-> NoRecord]
  /\ raintreeMap' = [m \in Ids |-> NoRecord]
  /\ idx' = 1
  /\ pc' = "FetchingPartner"
  /\ UNCHANGED <<kind, store, histVars, remoteVars, decideVars, pollVars,
                 serviceVars,
                 requestVars>>

\* sync.ts 56-60 (125-129): authenticate to Partner, one bulk query; the
\* query (salesforce.ts 142: ORDER BY CreatedDate DESC LIMIT 100) answers
\* with the records that exist and are among the newest of the org
FetchPartnerOk ==
  /\ pc = "FetchingPartner"
  /\ \E found \in SUBSET (DOMAIN mappings) :
       partnerMap' = [m \in Ids |-> IF m \in found THEN partner[m] ELSE NoRecord]
  /\ idx' = 1
  /\ pc' = AfterLoop(1, "FetchingRaintree", "Done")
  /\ editedPrev' = editedCur
  /\ editedCur' = [m \in Ids |-> FALSE]
  /\ UNCHANGED <<kind, store, mappings, raintreeMap, results, updatedMappings,
                 updates, watch, prev, remoteVars, decideVars, pollVars,
                 serviceVars,
                 requestVars>>

\* sync.ts 56-57, 104-107: createWithCredentials or the bulk query throws,
\* the catch rethrows
FetchPartnerThrows ==
  /\ pc = "FetchingPartner"
  /\ pc' = "Thrown"
  /\ editedPrev' = editedCur
  /\ editedCur' = [m \in Ids |-> FALSE]
  /\ UNCHANGED <<kind, store, mappings, partnerMap, raintreeMap, idx, results,
                 updatedMappings, updates, watch, prev, remoteVars, decideVars,
                 pollVars,
                 serviceVars,
                 requestVars>>

\* sync.ts 64-73 (133-142): one iteration of the Raintree fetch loop
FetchRaintree ==
  /\ pc = "FetchingRaintree"
  /\ LET m == Entries(DOMAIN mappings)[idx]
     IN  \E callOk \in BOOLEAN :
           raintreeMap' = [raintreeMap EXCEPT
                             ![m] = IF callOk /\ raintree[m].exists
                                      THEN raintree[m] ELSE NoRecord]
  /\ idx' = IF idx + 1 > Len(Entries(DOMAIN mappings)) THEN 1 ELSE idx + 1
  /\ pc' = AfterLoop(idx + 1, "FetchingRaintree", "Reconciling")
  /\ UNCHANGED <<kind, store, mappings, partnerMap, results, updatedMappings,
                 updates, histVars, remoteVars, decideVars, pollVars,
                 serviceVars,
                 requestVars>>

\* the remote update of a propagate decision lands: the receiving record
\* takes the sent field values and a new LastModifiedDate
ApplyUpdate(side, m, data) ==
  /\ now < ClockCap
  /\ now' = now + 1
  /\ IF side = "raintree"
       THEN /\ raintree[m].exists
            /\ raintree' = [raintree EXCEPT ![m].val = data,
                                            ![m].LastModifiedDate = now + 1]
            /\ UNCHANGED partner
       ELSE /\ partner[m].exists
            /\ partner' = [partner EXCEPT ![m].val = data,
                                          ![m].LastModifiedDate = now + 1]
            /\ UNCHANGED raintree

\* faulty variant: the update goes to the record of the winning side
UpdateCall_WinningSide(decision, partnerRec, raintreeRec) ==
  IF ~decision.shouldSync THEN [side |-> "none", data |-> Null]
  ELSE IF decision.syncDirection = "partner-to-raintree"
    THEN [side |-> "partner", data |-> partnerRec.val]
  ELSE IF decision.syncDirection = "raintree-to-partner"
    THEN [side |-> "raintree", data |-> raintreeRec.val]
  ELSE [side |-> "none", data |-> Null]

\* sync.ts 228-262 (337-373): the update call a decision issues, if any:
\* the org it goes to and the field values it carries
UpdateCall(decision, partnerRec, raintreeRec) ==
  IF ~decision.shouldSync THEN [side |-> "none", data |-> Null]
  ELSE IF decision.syncDirection = "partner-to-raintree"
    THEN [side |-> "raintree", data |-> partnerRec.val]
  ELSE IF decision.syncDirection = "raintree-to-partner"
    THEN [side |-> "partner", data |-> raintreeRec.val]
  ELSE [side |-> "none", data |-> Null]

\* faulty variant: the error of a failed update escapes the record's sync
RecordRaises_NoCatch(call, outcome) ==
  call.side # "none" /\ outcome # "ok"

\* sync.ts 238-281 (347-392): the try/catch around the update turns every
\* error into a failed SyncResult, nothing escapes to the loop
RecordRaises(call, outcome) ==
  FALSE

\* faulty variant: a record missing on one side is processed all the same
Skipped_Never(partnerRec, raintreeRec) ==
  FALSE

\* syncOpportunities 80, syncLeads 149: !partnerOpp || !raintreeOpp
Skipped(partnerRec, raintreeRec) ==
  ~partnerRec.exists \/ ~raintreeRec.exists

\* the update calls of the running pass for one mapping, one more issued
Issued(log, call) ==
  IF call.side = "partner" THEN [log EXCEPT !.partner = @ + 1]
  ELSE IF call.side = "raintree" THEN [log EXCEPT !.raintree = @ + 1]
  ELSE log

\* sync.ts 76-103 (145-172): one iteration of the processing loop
ProcessMapping ==
  /\ pc = "Reconciling"
  /\ LET m == Entries(DOMAIN mappings)[idx]
         mapping == mappings[m]
         partnerRec == partnerMap[m]
         raintreeRec == raintreeMap[m]
         decision == Decide(kind, partnerRec, raintreeRec, mapping)
         call == UpdateCall(decision, partnerRec, raintreeRec)
     IN  IF Skipped(partnerRec, raintreeRec)
           THEN /\ UNCHANGED <<results, updatedMappings, updates, remoteVars>>
                /\ idx' = IF idx + 1 > Len(Entries(DOMAIN mappings)) THEN 1
                                                                      ELSE idx + 1
                /\ pc' = AfterLoop(idx + 1, "Reconciling", "Done")
           ELSE \E outcome \in {"ok"} \cup RemoteErrors :
                  /\ IF call.side = "none"
                       THEN outcome = "ok" /\ UNCHANGED remoteVars
                     ELSE IF outcome = "ok"
                       THEN ApplyUpdate(call.side, m, call.data) /\ UNCHANGED edits
                       ELSE UNCHANGED remoteVars
                  /\ updates' = [updates EXCEPT ![m] = Issued(@, call)]
                  /\ IF RecordRaises(call, outcome)
                       THEN /\ pc' = "Thrown"
                            /\ UNCHANGED <<idx, results, updatedMappings>>
                       ELSE LET syncResult == SyncResultOf(partnerRec, mapping,
                                                decision, outcome, now')
                            IN  /\ results' = Append(results, syncResult)
                                /\ updatedMappings' =
                                     [updatedMappings EXCEPT
                                        ![m] = UpdatedMapping(mapping, partnerRec,
                                                              raintreeRec, syncResult)]
                                /\ idx' = IF idx + 1 > Len(Entries(DOMAIN mappings))
                                            THEN 1 ELSE idx + 1
                                /\ pc' = AfterLoop(idx + 1, "Reconciling", "Done")
  /\ UNCHANGED <<kind, store, mappings, partnerMap, raintreeMap, histVars,
                 decideVars, pollVars,
                 serviceVars,
                 requestVars>>

\* faulty variant: every result with a direction counts as synced
Summary_FailedAsSynced(allResults) ==
  [total |-> Len(allResults),
   synced |-> Cardinality({i \in 1..Len(allResults) : allResults[i].syncDirection # "none"}),
   failed |-> Cardinality({i \in 1..Len(allResults) : ~allResults[i].success}),
   conflicts |-> Cardinality({i \in 1..Len(allResults) : allResults[i].syncDirection = "conflict"})]

\* routes/sync.ts 91-98: the summary of the response, over the results of
\* the two passes of the request (the pass of the other kind has no mapping
\* and no result here)
Summary(allResults) ==
  [total |-> Len(allResults),
   synced |-> Cardinality({i \in 1..Len(allResults) : allResults[i].success /\ allResults[i].syncDirection # "none"}),
   failed |-> Cardinality({i \in 1..Len(allResults) : ~allResults[i].success}),
   conflicts |-> Cardinality({i \in 1..Len(allResults) : allResults[i].syncDirection = "conflict"})]

\* what a finished request leaves for the next one to be compared with
History(persisted) ==
  [dir |-> [m \in Ids |->
              IF m \in watch /\ \E i \in 1..Len(results) : results[i].recordId = m
                THEN LET i == CHOOSE i \in 1..Len(results) : results[i].recordId = m
                     IN  results[i].syncDirection
                ELSE "absent"],
   ok |-> [m \in Ids |->
              \A i \in 1..Len(results) :
                 (m \in watch /\ results[i].recordId = m) => results[i].success],
   \* the pass answered none for m although a side had changed, a genuine
   \* edit having been made since the fetch of the pass before
   guarded |-> [m \in Ids |->
              /\ m \in watch
              /\ editedPrev[m]
              /\ \E i \in 1..Len(results) :
                    results[i].recordId = m /\ results[i].syncDirection = "none"
              /\ \/ PartnerHasNewChanges(partnerMap[m], mappings[m])
                 \/ RaintreeHasNewChanges(raintreeMap[m], mappings[m])],
   persisted |-> persisted /\ watch # {}]

ResetPass ==
  /\ pc' = "Idle"
  /\ mappings' = store'
  /\ results' = <<>>
  /\ updatedMappings' = store'
  /\ updates' = NoUpdates
  /\ partnerMap' = [m \in Ids |-> NoRecord]
  /\ raintreeMap' = [m \in Ids |-> NoRecord]
  /\ idx' = 1

\* routes/sync.ts 86-114 answers 200 when both kinds' passes returned;
\* frontend 604-612 then overwrites the stored mappings
RespondOk ==
  /\ pc = "Done"
  /\ store' = updatedMappings
  /\ prev' = History(TRUE)
  /\ ResetPass
  /\ UNCHANGED <<kind, watch, editedCur, editedPrev, remoteVars, decideVars, pollVars,
                 serviceVars,
                 requestVars>>

\* faulty variant: the mappings of the finished pass are stored although
\* the request failed
StoredAfterError_Writes(stored, returned) ==
  returned

\* frontend 599-602, 612-615: on a response that is not ok the function
\* throws before it reaches localStorage.setItem; the catch rethrows
StoredAfterError(stored, returned) ==
  stored

\* routes/sync.ts 115-121 answers 500 when this pass or the other kind's
\* pass threw (Promise.all rejects); frontend 599-602 throws, nothing stored
RespondError ==
  /\ pc \in {"Done", "Thrown"}
  /\ store' = StoredAfterError(store, updatedMappings)
  /\ prev' = History(FALSE)
  /\ ResetPass
  /\ UNCHANGED <<kind, watch, editedCur, editedPrev, remoteVars, decideVars, pollVars,
                 serviceVars,
                 requestVars>>


(***************************************************************************)
(* Specification of the sync pass.                                         *)
(***************************************************************************)

\* a record as the create workflow leaves it in an org
NewRecord == [exists |-> TRUE, LastModifiedDate |-> 0, CreatedDate |-> 0, val |-> 0]

\* App.tsx 363-373 (563-573): the mapping the create workflow stores
NewMapping(m) ==
  [partnerId |-> m, raintreeId |-> m, partnerLastModified |-> 0,
   raintreeLastModified |-> 0, lastSyncSource |-> "system", lastSyncTime |-> 0]

DecideIdle ==
  /\ dKind = "opportunity"
  /\ dPartner = NewRecord
  /\ dRaintree = NewRecord
  /\ dMapping = NewMapping(1)
  /\ dDone = FALSE
  /\ dOut = [syncDirection |-> "none", shouldSync |-> FALSE]
  /\ dCalls = 0
  /\ dFirst = [syncDirection |-> "none", shouldSync |-> FALSE]

PollIdle ==
  /\ step = 1
  /\ isPolling = FALSE
  /\ effectIsPolling = FALSE
  /\ effectStep = 1
  /\ timeoutArmed = FALSE
  /\ intervalArmed = FALSE
  /\ requests = [syncing |-> 0, reloading |-> 0]

\* no workflow request is being served, no update payload is on its way
RequestIdle ==
  /\ wf = [pc |-> "idle"]
  /\ patch = [pc |-> "idle"]

\* raintree.ts 9: private static service = null, no Raintree call running
ServiceIdle ==
  /\ service = "none"
  /\ svcPc = [k \in Kinds |-> "idle"]
  /\ held = [k \in Kinds |-> "none"]
  /\ fetches = [k \in Kinds |-> 0]
  /\ auths = 0
  /\ svcReaders = {}
  /\ svcWriters = {}

\* no pass runs; the create workflow has stored a mapping for the ids of S
PassIdle(S) ==
  /\ now = 0
  /\ edits = 0
  /\ partner = [m \in Ids |-> NewRecord]
  /\ raintree = [m \in Ids |-> NewRecord]
  /\ store = [m \in S |-> NewMapping(m)]
  /\ pc = "Idle"
  /\ mappings = store
  /\ partnerMap = [m \in Ids |-> NoRecord]
  /\ raintreeMap = [m \in Ids |-> NoRecord]
  /\ idx = 1
  /\ results = <<>>
  /\ updatedMappings = store
  /\ updates = NoUpdates
  /\ prev = NoPrev
  /\ editedCur = [m \in Ids |-> FALSE]
  /\ editedPrev = [m \in Ids |-> FALSE]

\* one mapped pair, its history recorded
Init ==
  /\ kind \in Kinds
  /\ PassIdle({1})
  /\ watch = {1}
  /\ DecideIdle
  /\ PollIdle
  /\ ServiceIdle
  /\ RequestIdle

\* two mapped pairs
InitPair ==
  /\ kind \in Kinds
  /\ PassIdle(Ids)
  /\ watch = {}
  /\ DecideIdle
  /\ PollIdle
  /\ ServiceIdle
  /\ RequestIdle

Next ==
  \/ \E side \in {"partner", "raintree"}, m \in Ids : GenuineEdit(side, m)
  \/ StartPass
  \/ FetchPartnerOk
  \/ FetchPartnerThrows
  \/ FetchRaintree
  \/ ProcessMapping
  \/ RespondOk
  \/ RespondError

Spec == Init /\ [][Next]_vars

SpecPair == InitPair /\ [][Next]_vars


(***************************************************************************)
(* The sync pass while every remote call succeeds: no fetch fails or       *)
(* misses a record, no update fails, every request is answered and stored. *)
(* Passes keep running (the dashboard polls every 10 s); the user's edits  *)
(* are finitely many.                                                      *)
(***************************************************************************)

FetchPartnerAll ==
  FetchPartnerOk /\ \A m \in DOMAIN mappings : partnerMap'[m].exists

FetchRaintreeFound ==
  FetchRaintree /\ raintreeMap'[Entries(DOMAIN mappings)[idx]].exists

ProcessMappingOk ==
  ProcessMapping /\ \A i \in 1..Len(results') : results'[i].success

\* the user's edits stop, early enough for the clock to hold the updates of
\* the passes that follow them
CalmEdit(side, m) ==
  GenuineEdit(side, m) /\ edits < MaxCalmEdits

NextCalm ==
  \/ \E side \in {"partner", "raintree"}, m \in Ids : CalmEdit(side, m)
  \/ StartPass
  \/ FetchPartnerAll
  \/ FetchRaintreeFound
  \/ ProcessMappingOk
  \/ RespondOk

SpecCalm ==
  /\ Init
  /\ [][NextCalm]_vars
  /\ WF_vars(StartPass)
  /\ WF_vars(FetchPartnerAll)
  /\ WF_vars(FetchRaintreeFound)
  /\ WF_vars(ProcessMappingOk)
  /\ WF_vars(RespondOk)


(***************************************************************************)
(* The sync pass next to the update workflow of the dashboard: the user    *)
(* edits a synced record in the edit form, and the backend route writes    *)
(* the form's values to the Partner record and then to the Raintree one.   *)
(***************************************************************************)

\* App.tsx 424-474, routes/opportunities.ts 147-177 (leads alike): the
\* update workflow with syncToRaintree and the Raintree id, both updates
\* succeeding.  Partner is written first; the Raintree write is stamped in
\* the same second or a later one.  handleUpdateOpportunity does not touch
\* the stored mapping.
UpdateWorkflow(m) ==
  /\ pc \in {"Idle", "Reconciling"}
  /\ m \in DOMAIN store
  /\ edits < EditCap
  /\ now + 2 <= ClockCap
  /\ partner[m].exists /\ raintree[m].exists
  /\ \E later \in {now + 1, now + 2} :
       /\ partner' = [partner EXCEPT ![m].val = now + 1,
                                     ![m].LastModifiedDate = now + 1]
       /\ raintree' = [raintree EXCEPT ![m].val = now + 1,
                                       ![m].LastModifiedDate = later]
       /\ now' = later
  /\ edits' = edits + 1
  /\ editedCur' = [editedCur EXCEPT ![m] = (m \in watch)]
  /\ UNCHANGED <<kind, store, passVars, watch, prev, editedPrev, decideVars, pollVars,
                 serviceVars,
                 requestVars>>

NextEdit ==
  \/ \E m \in Ids : UpdateWorkflow(m)
  \/ StartPass
  \/ FetchPartnerOk
  \/ FetchPartnerThrows
  \/ FetchRaintree
  \/ ProcessMapping
  \/ RespondOk
  \/ RespondError

SpecEdit == Init /\ [][NextEdit]_vars


(***************************************************************************)
(* Specification of the policy alone, on inputs drawn from bounded sets.   *)
(***************************************************************************)

Stamps == 0..MaxStamp

\* a record as an org answers it; LastModifiedDate may be absent, and is
\* never earlier than CreatedDate
DrawnRecords ==
  {rec \in [exists : {TRUE}, LastModifiedDate : Stamps \cup {Null},
            CreatedDate : Stamps, val : {0}] :
     rec.LastModifiedDate = Null \/ rec.CreatedDate <= rec.LastModifiedDate}

\* a mapping as the request body may hold it
DrawnMappings ==
  {[partnerId |-> 1, raintreeId |-> 1, partnerLastModified |-> p,
    raintreeLastModified |-> r, lastSyncSource |-> src, lastSyncTime |-> 0] :
     p \in Stamps \cup {Invalid}, r \in Stamps \cup {Invalid},
     src \in {"partner", "raintree", "system"}}

InitDecide ==
  /\ kind = "opportunity"
  /\ PassIdle({1})
  /\ watch = {}
  /\ PollIdle
  /\ ServiceIdle
  /\ RequestIdle
  /\ dKind \in Kinds
  /\ dPartner \in DrawnRecords
  /\ dRaintree \in DrawnRecords
  /\ dMapping \in DrawnMappings
  /\ dDone = FALSE
  /\ dOut = [syncDirection |-> "none", shouldSync |-> FALSE]
  /\ dCalls = 0
  /\ dFirst = [syncDirection |-> "none", shouldSync |-> FALSE]

\* syncOpportunityRecord / syncLeadRecord decide for the drawn inputs; the
\* call reads its arguments and writes none of them, so a later call (the
\* next pass) on the same mapping and records gets the same arguments
DecideStep ==
  /\ dCalls < MaxCalls
  /\ dOut' = Decide(dKind, dPartner, dRaintree, dMapping)
  /\ dDone' = TRUE
  /\ dCalls' = dCalls + 1
  /\ dFirst' = IF dCalls = 0 THEN dOut' ELSE dFirst
  /\ UNCHANGED <<kind, store, passVars, histVars, remoteVars, pollVars,
                 dKind, dPartner, dRaintree, dMapping,
                 serviceVars,
                 requestVars>>

NextDecide == DecideStep

SpecDecide == InitDecide /\ [][NextDecide]_vars


(***************************************************************************)
(* The polling trigger of the dashboard (frontend App.tsx).  A timer calls *)
(* the detectAndSyncChanges of the render in which the polling effect ran: *)
(* the effect depends on [step] alone, so that closure, and the isPolling  *)
(* and step it reads, stay those of that render until step changes again.  *)
(***************************************************************************)

InFlight == requests.syncing + requests.reloading

\* App.tsx 290-307: the polling effect, run after step has become s; its
\* cleanup clears both timers
PollingEffect(s) ==
  IF s = 3
    THEN /\ timeoutArmed' = TRUE
         /\ intervalArmed' = TRUE
         /\ effectIsPolling' = isPolling
         /\ effectStep' = s
    ELSE /\ timeoutArmed' = FALSE
         /\ intervalArmed' = FALSE
         /\ UNCHANGED <<effectIsPolling, effectStep>>

\* App.tsx 105-108 handleLogin, 123-125 handleSalesforceAuth, 914-916 logout
SetStep ==
  /\ step' = IF step = 1 THEN 2 ELSE IF step = 2 THEN 3 ELSE 1
  /\ PollingEffect(step')
  /\ UNCHANGED <<isPolling, requests>>
  /\ UNCHANGED <<kind, store, passVars, histVars, remoteVars, decideVars,
                 serviceVars,
                 requestVars>>

\* App.tsx 222: if (isPolling || step !== 3) return, in the timers' closure
PollGuard == effectIsPolling \/ effectStep # 3

\* App.tsx 221-226: detectAndSyncChanges as a timer calls it
DetectAndSyncChanges ==
  IF PollGuard
    THEN UNCHANGED <<isPolling, requests>>
    ELSE /\ InFlight < MaxInFlight
         /\ isPolling' = TRUE
         /\ requests' = [requests EXCEPT !.syncing = @ + 1]

\* App.tsx 294-296: the initial timeout fires, 5 s after the effect ran
TimeoutFires ==
  /\ timeoutArmed
  /\ timeoutArmed' = FALSE
  /\ DetectAndSyncChanges
  /\ UNCHANGED <<step, effectIsPolling, effectStep, intervalArmed>>
  /\ UNCHANGED <<kind, store, passVars, histVars, remoteVars, decideVars,
                 serviceVars,
                 requestVars>>

\* App.tsx 299-301: the interval fires, every 10 s
IntervalFires ==
  /\ intervalArmed
  /\ DetectAndSyncChanges
  /\ UNCHANGED <<step, effectIsPolling, effectStep, timeoutArmed, intervalArmed>>
  /\ UNCHANGED <<kind, store, passVars, histVars, remoteVars, decideVars,
                 serviceVars,
                 requestVars>>

\* App.tsx 226-269: the sync request is answered (or throws); with synced
\* records the data is reloaded first, otherwise finally clears isPolling
RequestAnswered ==
  /\ requests.syncing > 0
  /\ \E hasChanges \in BOOLEAN :
       IF hasChanges
         THEN /\ requests' = [syncing |-> requests.syncing - 1,
                              reloading |-> requests.reloading + 1]
              /\ UNCHANGED isPolling
         ELSE /\ requests' = [requests EXCEPT !.syncing = @ - 1]
              /\ isPolling' = FALSE
  /\ UNCHANGED <<step, effectIsPolling, effectStep, timeoutArmed, intervalArmed>>
  /\ UNCHANGED <<kind, store, passVars, histVars, remoteVars, decideVars,
                 serviceVars,
                 requestVars>>

\* App.tsx 260-268: loadSalesforceData returns, finally clears isPolling
ReloadDone ==
  /\ requests.reloading > 0
  /\ requests' = [requests EXCEPT !.reloading = @ - 1]
  /\ isPolling' = FALSE
  /\ UNCHANGED <<step, effectIsPolling, effectStep, timeoutArmed, intervalArmed>>
  /\ UNCHANGED <<kind, store, passVars, histVars, remoteVars, decideVars,
                 serviceVars,
                 requestVars>>

InitPolling ==
  /\ kind = "opportunity"
  /\ PassIdle({1})
  /\ watch = {}
  /\ DecideIdle
  /\ PollIdle
  /\ ServiceIdle
  /\ RequestIdle

NextPolling ==
  \/ SetStep
  \/ TimeoutFires
  \/ IntervalFires
  \/ RequestAnswered
  \/ ReloadDone

SpecPolling == InitPolling /\ [][NextPolling]_vars


(***************************************************************************)
(* The mapping store under the workflows of the dashboard: a record pair   *)
(* is created or deleted by the user while a sync request may be running.  *)
(* The stored mapping of the first pair may hold a timestamp that does not *)
(* parse.                                                                  *)
(***************************************************************************)

\* faulty variant: the mapping is stored whatever the response holds
StoredAfterCreate_Always(stored, salesforceId, raintreeId, t) ==
  [n \in DOMAIN stored \cup {salesforceId} |->
     IF n = salesforceId
       THEN [NewMapping(n) EXCEPT !.raintreeId = raintreeId,
                                  !.partnerLastModified = t,
                                  !.raintreeLastModified = t,
                                  !.lastSyncTime = t]
       ELSE stored[n]]

\* App.tsx 362-377 (562-577): if (raintreeId) the mapping is written to
\* localStorage, otherwise the store is left as it is; raintreeId is Null
\* when the response holds no raintreeSalesforceId
StoredAfterCreate(stored, salesforceId, raintreeId, t) ==
  IF raintreeId # Null
    THEN [n \in DOMAIN stored \cup {salesforceId} |->
            IF n = salesforceId
              THEN [NewMapping(n) EXCEPT !.raintreeId = raintreeId,
                                         !.partnerLastModified = t,
                                         !.raintreeLastModified = t,
                                         !.lastSyncTime = t]
              ELSE stored[n]]
    ELSE stored

\* App.tsx 330-374 (530-573): the create workflow, Raintree sync enabled: a
\* record in each org and, once the backend has answered, their mapping.
\* The workflows are user actions as the edits are, and count with them.
CreateMapping(m) ==
  /\ pc \in {"Idle", "Reconciling"}
  /\ edits < MaxPairEdits
  /\ edits' = edits + 1
  /\ m \notin DOMAIN store
  /\ ~partner[m].exists /\ ~raintree[m].exists
  /\ store' = StoredAfterCreate(store, m, m, now)
  /\ partner' = [partner EXCEPT ![m] = [NewRecord EXCEPT !.LastModifiedDate = now,
                                                         !.CreatedDate = now]]
  /\ raintree' = [raintree EXCEPT ![m] = [NewRecord EXCEPT !.LastModifiedDate = now,
                                                           !.CreatedDate = now]]
  /\ UNCHANGED <<kind, passVars, histVars, now, decideVars, pollVars,
                 serviceVars,
                 requestVars>>

\* App.tsx 330-377 (530-577): the create workflow when Raintree sync is not
\* requested, or its Raintree creation failed (part_004 54-66): the Partner
\* record is created and the response holds no raintreeSalesforceId.  The id
\* is a fresh one: Salesforce does not hand out an id twice.
CreateUnmapped(m) ==
  /\ pc \in {"Idle", "Reconciling"}
  /\ edits < MaxPairEdits
  /\ edits' = edits + 1
  /\ m \notin DOMAIN store \cup DOMAIN mappings \cup DOMAIN updatedMappings
  /\ ~partner[m].exists /\ ~raintree[m].exists
  /\ store' = StoredAfterCreate(store, m, Null, now)
  /\ partner' = [partner EXCEPT ![m] = [NewRecord EXCEPT !.LastModifiedDate = now,
                                                         !.CreatedDate = now]]
  /\ UNCHANGED <<kind, passVars, histVars, now, raintree, decideVars, pollVars,
                 serviceVars,
                 requestVars>>

\* App.tsx 690-710: the delete workflow of a synced lead deletes the record
\* in both orgs and removes its mapping; handleDeleteOpportunity (477-506)
\* deletes the records and leaves the mapping in the store
DeleteMapping(m) ==
  /\ pc \in {"Idle", "Reconciling"}
  /\ edits < MaxPairEdits
  /\ edits' = edits + 1
  /\ m \in DOMAIN store
  /\ partner[m].exists /\ raintree[m].exists
  /\ partner' = [partner EXCEPT ![m] = NoRecord]
  /\ raintree' = [raintree EXCEPT ![m] = NoRecord]
  /\ store' = IF kind = "lead" THEN [n \in DOMAIN store \ {m} |-> store[n]]
                               ELSE store
  /\ UNCHANGED <<kind, passVars, histVars, now, decideVars, pollVars,
                 serviceVars,
                 requestVars>>

InitStore ==
  /\ kind \in Kinds
  /\ now = 0
  /\ edits = 0
  /\ partner = [m \in Ids |-> IF m = 1 THEN NewRecord ELSE NoRecord]
  /\ raintree = [m \in Ids |-> IF m = 1 THEN NewRecord ELSE NoRecord]
  /\ \E stamp \in {0, Invalid} :
       store = [m \in {1} |-> [NewMapping(m) EXCEPT !.partnerLastModified = stamp]]
  /\ pc = "Idle"
  /\ mappings = store
  /\ partnerMap = [m \in Ids |-> NoRecord]
  /\ raintreeMap = [m \in Ids |-> NoRecord]
  /\ idx = 1
  /\ results = <<>>
  /\ updatedMappings = store
  /\ updates = NoUpdates
  /\ prev = NoPrev
  /\ editedCur = [m \in Ids |-> FALSE]
  /\ editedPrev = [m \in Ids |-> FALSE]
  /\ watch = {}
  /\ DecideIdle
  /\ PollIdle
  /\ ServiceIdle
  /\ RequestIdle

NextStore ==
  \/ \E side \in {"partner", "raintree"}, m \in Ids : GenuineEdit(side, m)
  \/ StartPass
  \/ FetchPartnerOk
  \/ FetchPartnerThrows
  \/ FetchRaintree
  \/ ProcessMapping
  \/ RespondOk
  \/ RespondError
  \/ \E m \in Ids : CreateMapping(m)
  \/ \E m \in Ids : CreateUnmapped(m)
  \/ \E m \in Ids : DeleteMapping(m)

SpecStore == InitStore /\ [][NextStore]_vars


(***************************************************************************)
(* The Raintree service singleton (backend services/raintree.ts).  One     *)
(* request runs the opportunity pass and the lead pass together            *)
(* (routes/sync.ts 86-89, Promise.all); every Raintree call of either pass *)
(* goes through the static getService.  A pass runs on between awaits, so  *)
(* the steps below are the stretches between two awaits.                   *)
(***************************************************************************)

\* raintree.ts 14-17, 26-51: a pass starts a Raintree call (getOpportunity,
\* getLead, updateOpportunity, updateLead): getService reads the static
\* field; with an instance cached it is returned, otherwise authenticate
\* starts a login and awaits it
GetService(k) ==
  /\ svcPc[k] = "idle"
  /\ fetches[k] < MaxFetches
  /\ svcReaders' = svcReaders \cup {k}
  /\ IF service # "none"
       THEN /\ svcPc' = [svcPc EXCEPT ![k] = "calling"]
            /\ held' = [held EXCEPT ![k] = service]
            /\ UNCHANGED auths
       ELSE /\ svcPc' = [svcPc EXCEPT ![k] = "authenticating"]
            /\ auths' = auths + 1
            /\ UNCHANGED held
  /\ UNCHANGED <<service, fetches, svcWriters>>
  /\ UNCHANGED <<kind, store, passVars, histVars, remoteVars, decideVars, pollVars,
                 requestVars>>

\* raintree.ts 49-56, 19: the login of a pass returns and the instance is
\* stored in the static field, or fails and the call throws
AuthDone(k) ==
  /\ svcPc[k] = "authenticating"
  /\ \E ok \in BOOLEAN :
       IF ok
         THEN /\ service' = k
              /\ svcWriters' = svcWriters \cup {k}
              /\ held' = [held EXCEPT ![k] = k]
              /\ svcPc' = [svcPc EXCEPT ![k] = "calling"]
              /\ UNCHANGED fetches
         ELSE /\ svcPc' = [svcPc EXCEPT ![k] = "idle"]
              /\ fetches' = [fetches EXCEPT ![k] = @ + 1]
              /\ UNCHANGED <<service, svcWriters, held>>
  /\ UNCHANGED <<auths, svcReaders>>
  /\ UNCHANGED <<kind, store, passVars, histVars, remoteVars, decideVars, pollVars,
                 requestVars>>

\* raintree.ts 184-201: the call itself, with the instance it was given
CallDone(k) ==
  /\ svcPc[k] = "calling"
  /\ svcPc' = [svcPc EXCEPT ![k] = "idle"]
  /\ fetches' = [fetches EXCEPT ![k] = @ + 1]
  /\ UNCHANGED <<service, held, auths, svcReaders, svcWriters>>
  /\ UNCHANGED <<kind, store, passVars, histVars, remoteVars, decideVars, pollVars,
                 requestVars>>

InitService ==
  /\ kind = "opportunity"
  /\ PassIdle({1})
  /\ watch = {}
  /\ DecideIdle
  /\ PollIdle
  /\ ServiceIdle
  /\ RequestIdle

NextService ==
  \/ \E k \in Kinds : GetService(k)
  \/ \E k \in Kinds : AuthDone(k)
  \/ \E k \in Kinds : CallDone(k)

SpecService == InitService /\ [][NextService]_vars


(***************************************************************************)
(* The update of a propagate decision, field by field: the second half of  *)
(* syncOpportunityRecord / syncLeadRecord builds the data from the winning *)
(* record, SalesforceService.updateOpportunity / updateLead cleans it and  *)
(* PATCHes the losing record.  A text field that holds no value is         *)
(* NullText, an Amount that holds none is Null.                            *)
(***************************************************************************)

NullText == "null"

OpportunityFields == {"Name", "StageName", "Amount", "CloseDate"}

LeadFields == {"FirstName", "LastName", "Company", "Email", "Status"}

SyncedFields(k) == IF k = "opportunity" THEN OpportunityFields ELSE LeadFields

\* JavaScript's x || d takes d for these values of x
Falsy(f, v) ==
  IF f = "Amount" THEN v \in {Null, 0} ELSE v \in {NullText, ""}

\* opportunityData.X !== undefined && opportunityData.X !== null fails
Absent(f, v) ==
  IF f = "Amount" THEN v = Null ELSE v = NullText

\* sync.ts 241-246, 254-259 (350-356, 369-375): the fields written with || d
Defaults(k) ==
  IF k = "opportunity"
    THEN [Amount |-> 0]
    ELSE [FirstName |-> "", LastName |-> "", Company |-> "", Email |-> "",
          Status |-> "Open - Not Contacted"]

\* sync.ts 241-246, 254-259 (350-356, 369-375): the data of the update call
UpdateData(k, rec) ==
  [f \in SyncedFields(k) |->
     IF f \in DOMAIN Defaults(k) /\ Falsy(f, rec[f]) THEN Defaults(k)[f]
                                                      ELSE rec[f]]

\* salesforce.ts 172-185 (347-369): cleanData keeps the fields that are
\* neither undefined nor null
CleanData(data) ==
  [f \in {g \in DOMAIN data : ~Absent(g, data[g])} |-> data[f]]

\* Salesforce stores the empty string of a text field as no value
Stored(f, v) ==
  IF f # "Amount" /\ v = "" THEN NullText ELSE v

\* salesforce.ts 192-195 (376-379): PATCH sets the fields of the body and
\* leaves the others
PatchRecord(rec, body) ==
  [f \in DOMAIN rec |-> IF f \in DOMAIN body THEN Stored(f, body[f]) ELSE rec[f]]

\* the records of one kind an org may hold
DrawnFields(k) ==
  IF k = "opportunity"
    THEN [Name : {"Acme", "Apex"}, StageName : {"Prospecting"},
          Amount : {Null, 0, 5000}, CloseDate : {"2026-01-31"}]
    ELSE [FirstName : {NullText, "Ann"}, LastName : {"Lee"}, Company : {"Acme"},
          Email : {NullText, "ann@acme.test"},
          Status : {"Open - Not Contacted", "Working - Contacted"}]

\* sync.ts 238-246 (347-356): the update data is built from the winner
BuildUpdate ==
  /\ patch.pc = "observed"
  /\ patch' = [patch EXCEPT !.pc = "sending",
                            !.data = UpdateData(patch.kind, patch.winner)]
  /\ UNCHANGED <<kind, now, edits, store, passVars, histVars, partner, raintree,
                 decideVars, pollVars, serviceVars, wf>>

\* salesforce.ts 167-202 (333-386): the update lands on the losing record
SendUpdate ==
  /\ patch.pc = "sending"
  /\ patch' = [patch EXCEPT !.pc = "updated",
                            !.loser = PatchRecord(@, CleanData(patch.data))]
  /\ UNCHANGED <<kind, now, edits, store, passVars, histVars, partner, raintree,
                 decideVars, pollVars, serviceVars, wf>>

\* salesforce.ts 203-214 (387-398): the PATCH fails, the record is as before
SendUpdateThrows ==
  /\ patch.pc = "sending"
  /\ patch' = [patch EXCEPT !.pc = "failed"]
  /\ UNCHANGED <<kind, now, edits, store, passVars, histVars, partner, raintree,
                 decideVars, pollVars, serviceVars, wf>>

InitPayload ==
  /\ kind \in Kinds
  /\ PassIdle({1})
  /\ watch = {}
  /\ DecideIdle
  /\ PollIdle
  /\ ServiceIdle
  /\ wf = [pc |-> "idle"]
  /\ \E direction \in Propagate, winner \in DrawnFields(kind),
        loser \in DrawnFields(kind) :
       patch = [pc |-> "observed", kind |-> kind, direction |-> direction,
                winner |-> winner, loser |-> loser, data |-> <<>>]

NextPayload ==
  \/ BuildUpdate
  \/ SendUpdate
  \/ SendUpdateThrows

SpecPayload == InitPayload /\ [][NextPayload]_vars


(***************************************************************************)
(* The create / update / delete workflows of the backend routes            *)
(* (routes/opportunities.ts and routes/leads.ts hold the same handlers).   *)
(* A handler runs from one await to the next: from the request to the      *)
(* Partner call, from its return to the Raintree call or the response,     *)
(* from the Raintree call's return to the response.                        *)
(***************************************************************************)

Operations == {"create", "update", "delete"}

\* faulty variant: the Raintree record is touched whenever sync is enabled
RaintreeAttempted_IgnoresId(op, syncToRaintree, hasRaintreeId) ==
  syncToRaintree

\* POST 54 (if syncToRaintree), PUT 160-161 (if syncToRaintree, if
\* raintreeOpportunityId), DELETE 243 (syncToRaintree && raintreeOpportunityId)
RaintreeAttempted(op, syncToRaintree, hasRaintreeId) ==
  syncToRaintree /\ (op = "create" \/ hasRaintreeId)

\* PUT 179-184, DELETE 254-258: sync enabled but the Raintree id is missing
MissingRaintreeId(op, syncToRaintree, hasRaintreeId) ==
  op # "create" /\ syncToRaintree /\ ~hasRaintreeId

\* POST 69-73 (201), PUT 189-193, DELETE 260-264 (200)
SuccessResponse(op) ==
  [status |-> IF op = "create" THEN 201 ELSE 200, success |-> TRUE]

\* POST 17-33, PUT 130-140, DELETE 212-222: 400;  POST 46-51, PUT 152-157,
\* DELETE 234-239: 500
ErrorResponse(status) ==
  [status |-> status, success |-> FALSE]

\* faulty variant: an error of the Raintree call fails the request
AfterRaintree_Fails(op, outcome) ==
  IF outcome = "ok" THEN SuccessResponse(op) ELSE ErrorResponse(500)

\* POST 56-66, PUT 166-177, DELETE 245-253: the catch around the Raintree
\* call logs and collects the error, the handler goes on to the response
AfterRaintree(op, outcome) ==
  SuccessResponse(op)

\* the handler validates the request and calls the Partner org
Validate ==
  /\ wf.pc = "received"
  /\ IF wf.valid
       THEN wf' = [wf EXCEPT !.pc = "partner", !.calls = Append(@, "partner")]
       ELSE wf' = [wf EXCEPT !.pc = "responded", !.response = ErrorResponse(400)]
  /\ UNCHANGED <<kind, now, edits, store, passVars, histVars, partner, raintree,
                 decideVars, pollVars, serviceVars, patch>>

\* the Partner call returns: on an error the handler answers 500; otherwise
\* it goes on to the Raintree call, or to the response when there is none
PartnerReturns ==
  /\ wf.pc = "partner"
  /\ \E outcome \in {"ok"} \cup RemoteErrors :
       IF outcome # "ok"
         THEN wf' = [wf EXCEPT !.pc = "responded", !.partnerOutcome = outcome,
                               !.response = ErrorResponse(500)]
       ELSE IF RaintreeAttempted(wf.op, wf.syncToRaintree, wf.hasRaintreeId)
         THEN wf' = [wf EXCEPT !.pc = "raintree", !.partnerOutcome = "ok",
                               !.calls = Append(@, "raintree")]
         ELSE wf' = [wf EXCEPT
                       !.pc = "responded", !.partnerOutcome = "ok",
                       !.errors = IF MissingRaintreeId(wf.op, wf.syncToRaintree,
                                                       wf.hasRaintreeId)
                                    THEN Append(@, <<"raintreeId is missing">>)
                                    ELSE @,
                       !.response = SuccessResponse(wf.op)]
  /\ UNCHANGED <<kind, now, edits, store, passVars, histVars, partner, raintree,
                 decideVars, pollVars, serviceVars, patch>>

\* the Raintree call returns and the handler answers
RaintreeReturns ==
  /\ wf.pc = "raintree"
  /\ \E outcome \in {"ok"} \cup RemoteErrors :
       wf' = [wf EXCEPT
                !.pc = "responded", !.raintreeOutcome = outcome,
                !.errors = IF outcome = "ok" THEN @
                           ELSE Append(@, <<"Raintree sync failed", outcome>>),
                !.response = AfterRaintree(wf.op, outcome)]
  /\ UNCHANGED <<kind, now, edits, store, passVars, histVars, partner, raintree,
                 decideVars, pollVars, serviceVars, patch>>

InitWorkflow ==
  /\ kind \in Kinds
  /\ PassIdle({1})
  /\ watch = {}
  /\ DecideIdle
  /\ PollIdle
  /\ ServiceIdle
  /\ patch = [pc |-> "idle"]
  /\ \E op \in Operations, valid \in BOOLEAN, syncToRaintree \in BOOLEAN,
        hasRaintreeId \in BOOLEAN :
       /\ op = "create" => ~hasRaintreeId    \* the create request carries no id
       /\ wf = [pc |-> "received", op |-> op, valid |-> valid,
                syncToRaintree |-> syncToRaintree,
                hasRaintreeId |-> hasRaintreeId,
                calls |-> <<>>, partnerOutcome |-> "none",
                raintreeOutcome |-> "none", errors |-> <<>>,
                response |-> [status |-> 0, success |-> FALSE]]

NextWorkflow ==
  \/ Validate
  \/ PartnerReturns
  \/ RaintreeReturns

SpecWorkflow == InitWorkflow /\ [][NextWorkflow]_vars


(***************************************************************************)
(* Properties.                                                             *)
(***************************************************************************)

\* the positions of the results of mapping m in the running pass
ResultsFor(m) == {i \in 1..Len(results) : results[i].recordId = m}

\* both records of mapping m were fetched by the running pass
Fetched(m) == partnerMap[m].exists /\ raintreeMap[m].exists

\* the loop of the running pass is past mapping m
Visited(m) ==
  \/ pc = "Done"
  \/ /\ pc = "Reconciling"
     /\ \E i \in 1..(idx - 1) : Entries(DOMAIN mappings)[i] = m

\* no genuine edit touched mapping m since the fetch of the pass before
Unedited(m) == ~editedPrev[m] /\ ~editedCur[m]

\* the three fields of a mapping that carry the sync point
SyncPoint(mapping) ==
  <<mapping.partnerLastModified, mapping.raintreeLastModified,
    mapping.lastSyncSource>>

\* C1: a failed remote update is recorded as a failed SyncResult that
\* carries the remote error message, and the mapping returned for that
\* record keeps the partnerLastModified, raintreeLastModified and
\* lastSyncSource it had before the pass.
C1_FailedUpdateKeepsSyncPoint ==
  \A i \in 1..Len(results) :
     ~results[i].success =>
        /\ Len(results[i].error) > 0
        /\ results[i].error[Len(results[i].error)] \in RemoteErrors
        /\ SyncPoint(updatedMappings[results[i].recordId])
             = SyncPoint(mappings[results[i].recordId])

\* C2: a change whose propagation failed in the pass before, with its
\* mappings persisted and no record edited since, is decided the same way
\* again by this pass, which issues the same update again.
C2_FailedChangeIsRetried ==
  \A m \in watch :
     ( /\ prev.persisted
       /\ prev.dir[m] \in Propagate
       /\ ~prev.ok[m]
       /\ Unedited(m) )
     => \A i \in ResultsFor(m) :
           /\ results[i].syncDirection = prev.dir[m]
           /\ updates[m].partner + updates[m].raintree = 1

C4_AtMostOnePassInFlight ==
  requests.syncing <= 1

\* C5: a step of the processing loop issues no remote update for a skipped
\* mapping or a NoOp decision, and for a propagate decision exactly one,
\* to the losing side's record of that mapping: the winning side's record
\* and every other mapping's records stay as they are.
C5_OneUpdateToLosingSide ==
  [][ (pc = "Reconciling" /\ (idx' # idx \/ pc' # pc)) =>
        LET m == Entries(DOMAIN mappings)[idx]
            d == Decide(kind, partnerMap[m], raintreeMap[m], mappings[m])
            issued == [partner |-> updates'[m].partner - updates[m].partner,
                       raintree |-> updates'[m].raintree - updates[m].raintree]
        IN  /\ \A n \in Ids \ {m} : /\ partner'[n] = partner[n]
                                    /\ raintree'[n] = raintree[n]
                                    /\ updates'[n] = updates[n]
            /\ IF ~Fetched(m) \/ d.syncDirection = "none"
                 THEN /\ issued = [partner |-> 0, raintree |-> 0]
                      /\ partner' = partner /\ raintree' = raintree
               ELSE IF d.syncDirection = "partner-to-raintree"
                 THEN /\ issued = [partner |-> 0, raintree |-> 1]
                      /\ partner' = partner
                 ELSE /\ issued = [partner |-> 1, raintree |-> 0]
                      /\ raintree' = raintree
    ]_vars

\* C5, its case: a finished pass that propagated one mapping, the update
\* landed on the losing record, and left the other mapping alone
C5_Witness ==
  /\ pc = "Done"
  /\ \E m, n \in DOMAIN mappings :
       /\ m # n
       /\ \E i \in ResultsFor(m) : /\ results[i].syncDirection = "partner-to-raintree"
                                   /\ results[i].success
       /\ updates[m] = [partner |-> 0, raintree |-> 1]
       /\ raintree[m].val = partnerMap[m].val
       /\ raintree[m].LastModifiedDate > raintreeMap[m].LastModifiedDate
       /\ \E i \in ResultsFor(n) : results[i].syncDirection = "none"
       /\ updates[n] = [partner |-> 0, raintree |-> 0]

\* C6: a sync pass never raises to its caller, whatever remote failure
\* occurs: it always ends by returning results and mappings.
C6_PassNeverRaises ==
  pc # "Thrown"

\* C7: a mapping whose Partner or Raintree record the pass could not fetch
\* gets no SyncResult and no remote update, and stands in the mapping set
\* of the pass exactly as it was given (all six fields); a pass abandoned
\* at the Partner fetch has answered and updated nothing.
C7_UnfetchedMappingSkipped ==
  /\ \A m \in DOMAIN mappings :
        (Visited(m) /\ ~Fetched(m)) =>
           /\ ResultsFor(m) = {}
           /\ updates[m] = [partner |-> 0, raintree |-> 0]
           /\ updatedMappings[m] = mappings[m]
           /\ updatedMappings[m] = store[m]
  /\ pc = "Thrown" => /\ results = <<>>
                      /\ updates = NoUpdates
                      /\ store = mappings

\* C7, its case: a finished pass with one mapping unfetched (skipped) and
\* the other one propagated
C7_Witness ==
  /\ pc = "Done"
  /\ \E m, n \in DOMAIN mappings :
       /\ ~Fetched(m) /\ ResultsFor(m) = {}
       /\ Fetched(n)
       /\ \E i \in ResultsFor(n) : results[i].syncDirection \in Propagate

\* C8: failure isolation.  In a finished pass every mapping whose two
\* records were fetched has its own SyncResult, with the direction the
\* policy decides for it and, for a propagate decision, its one update
\* issued, whatever happened to the other mappings; a failed Raintree
\* fetch or a failed update never abandons the pass.
C8_FailureIsolation ==
  /\ pc = "Done" =>
       \A m \in DOMAIN mappings :
          Fetched(m) =>
            /\ Cardinality(ResultsFor(m)) = 1
            /\ \A i \in ResultsFor(m) :
                 /\ results[i].syncDirection =
                      Decide(kind, partnerMap[m], raintreeMap[m],
                             mappings[m]).syncDirection
                 /\ results[i].syncDirection \in Propagate
                      => updates[m].partner + updates[m].raintree = 1
  /\ pc = "Thrown" => /\ updates = NoUpdates
                      /\ \A m \in Ids : ~raintreeMap[m].exists

\* C8, its case: the update of the first mapping failed and the second
\* mapping was still propagated with success
C8_Witness ==
  /\ pc = "Done"
  /\ \E a, b \in DOMAIN mappings :
       /\ a < b
       /\ \E i \in ResultsFor(a) : ~results[i].success
       /\ \E i \in ResultsFor(b) : /\ results[i].success
                                   /\ results[i].syncDirection \in Propagate

\* an observed timestamp is later than a stored one (both parse)
Later(obs, stored) == obs >= 0 /\ stored >= 0 /\ obs > stored

PartnerChanged == Later(ObservedStamp(dPartner), dMapping.partnerLastModified)

RaintreeChanged == Later(ObservedStamp(dRaintree), dMapping.raintreeLastModified)

\* C9: anti-ping-pong guard.  When exactly one side changed, the policy
\* propagates from the changed side iff lastSyncSource is not the other
\* side, and decides NoOp when it is.
C9_AntiPingPongGuard ==
  dDone =>
    /\ (PartnerChanged /\ ~RaintreeChanged) =>
          IF dMapping.lastSyncSource # "raintree"
            THEN dOut = [syncDirection |-> "partner-to-raintree", shouldSync |-> TRUE]
            ELSE dOut = [syncDirection |-> "none", shouldSync |-> FALSE]
    /\ (RaintreeChanged /\ ~PartnerChanged) =>
          IF dMapping.lastSyncSource # "partner"
            THEN dOut = [syncDirection |-> "raintree-to-partner", shouldSync |-> TRUE]
            ELSE dOut = [syncDirection |-> "none", shouldSync |-> FALSE]

\* C9, its case: only Partner changed and the last sync came from Raintree
C9_Witness ==
  /\ dDone
  /\ PartnerChanged /\ ~RaintreeChanged
  /\ dMapping.lastSyncSource = "raintree"
  /\ dOut.syncDirection = "none"

\* C10: conflict recency.  When both sides changed, the side observed
\* strictly later wins whatever lastSyncSource is, and the decision is
\* never NoOp.
C10_ConflictRecency ==
  (dDone /\ PartnerChanged /\ RaintreeChanged) =>
    /\ dOut.shouldSync
    /\ dOut.syncDirection \in Propagate
    /\ ObservedStamp(dPartner) > ObservedStamp(dRaintree)
         => dOut.syncDirection = "partner-to-raintree"
    /\ ObservedStamp(dRaintree) > ObservedStamp(dPartner)
         => dOut.syncDirection = "raintree-to-partner"

\* C10, its case: both changed, Partner later, the last sync from Raintree
C10_Witness ==
  /\ dDone
  /\ PartnerChanged /\ RaintreeChanged
  /\ ObservedStamp(dPartner) > ObservedStamp(dRaintree)
  /\ dMapping.lastSyncSource = "raintree"
  /\ dOut.syncDirection = "partner-to-raintree"

NoOp == [syncDirection |-> "none", shouldSync |-> FALSE]

\* C11: tie-break determinism.  When both sides changed and their observed
\* timestamps are equal, the decision is Raintree-to-Partner, for either
\* record kind, on the first call and on every repeated call.
C11_TieBreakDeterminism ==
  ( /\ dDone
    /\ PartnerChanged /\ RaintreeChanged
    /\ ObservedStamp(dPartner) = ObservedStamp(dRaintree) )
  => /\ dOut = [syncDirection |-> "raintree-to-partner", shouldSync |-> TRUE]
     /\ dFirst = dOut

\* C11, its case: a tie on a lead, decided a second time
C11_Witness ==
  /\ dCalls >= 2
  /\ dKind = "lead"
  /\ PartnerChanged /\ RaintreeChanged
  /\ ObservedStamp(dPartner) = ObservedStamp(dRaintree)
  /\ dOut.syncDirection = "raintree-to-partner"

\* C12: change detection is strict.  A decision propagates only from a side
\* whose observed timestamp (LastModifiedDate, or CreatedDate when that is
\* absent) is strictly later than the stored one; when neither is, equal
\* timestamps included, the decision is NoOp whatever lastSyncSource is.
C12_StrictChangeDetection ==
  dDone =>
    /\ dOut.syncDirection = "partner-to-raintree" => PartnerChanged
    /\ dOut.syncDirection = "raintree-to-partner" => RaintreeChanged
    /\ (~PartnerChanged /\ ~RaintreeChanged) => dOut = NoOp

\* C12, its case: both observed timestamps equal the stored ones, the
\* Partner one being a CreatedDate, and no guard in the way
C12_Witness ==
  /\ dDone
  /\ dPartner.LastModifiedDate = Null
  /\ ObservedStamp(dPartner) = dMapping.partnerLastModified
  /\ ObservedStamp(dRaintree) = dMapping.raintreeLastModified
  /\ dMapping.lastSyncSource = "system"
  /\ dOut = NoOp

\* C13: idempotence of the policy.  The decision depends on the mapping and
\* the two records alone: a repeated call answers as the first one did, and
\* with observed timestamps not later than the stored ones both are NoOp.
C13_PolicyIdempotent ==
  dCalls >= 2 =>
    /\ dFirst = dOut
    /\ ( /\ dMapping.partnerLastModified >= 0
         /\ dMapping.raintreeLastModified >= 0
         /\ ObservedStamp(dPartner) <= dMapping.partnerLastModified
         /\ ObservedStamp(dRaintree) <= dMapping.raintreeLastModified )
       => (dFirst = NoOp /\ dOut = NoOp)

\* C13, its case: two calls on an unchanged mapping and unchanged records
C13_Witness ==
  /\ dCalls = 2
  /\ dMapping.partnerLastModified >= 0
  /\ dMapping.raintreeLastModified >= 0
  /\ ObservedStamp(dPartner) = dMapping.partnerLastModified
  /\ ObservedStamp(dRaintree) < dMapping.raintreeLastModified
  /\ dFirst = NoOp /\ dOut = NoOp

\* the two stored timestamps of a mapping
StoredStamps(mapping) ==
  <<mapping.partnerLastModified, mapping.raintreeLastModified>>

\* the side a propagate direction takes its values from
WinningSide(syncDirection) ==
  IF syncDirection = "partner-to-raintree" THEN "partner" ELSE "raintree"

\* C14: a NoOp decision, the guard's included, is recorded as a successful
\* SyncResult of direction none, and the mapping of the record keeps the
\* partnerLastModified and raintreeLastModified it had before the pass.
C14_NoOpKeepsTimestamps ==
  \A i \in 1..Len(results) :
     results[i].syncDirection = "none" =>
        /\ results[i].success
        /\ StoredStamps(updatedMappings[results[i].recordId])
             = StoredStamps(mappings[results[i].recordId])

\* C15: after a successful propagate action the mapping of the record
\* holds the two timestamps the pass observed in its fetch and names the
\* winning side; a mapping {T0, T0, system} with Partner observed at
\* T1 > T0 and Raintree at T0 is propagated Partner-to-Raintree and becomes
\* {T1, T0, partner}.
C15_PropagateAdvancesMapping ==
  \A i \in 1..Len(results) :
     LET m == results[i].recordId
         obsP == ObservedStamp(partnerMap[m])
         obsR == ObservedStamp(raintreeMap[m])
     IN  /\ (results[i].success /\ results[i].syncDirection \in Propagate) =>
              SyncPoint(updatedMappings[m])
                = <<obsP, obsR, WinningSide(results[i].syncDirection)>>
         /\ ( /\ mappings[m].lastSyncSource = "system"
              /\ mappings[m].raintreeLastModified = mappings[m].partnerLastModified
              /\ obsP > mappings[m].partnerLastModified
              /\ obsR = mappings[m].raintreeLastModified ) =>
              /\ results[i].syncDirection = "partner-to-raintree"
              /\ results[i].success =>
                   SyncPoint(updatedMappings[m])
                     = <<obsP, mappings[m].raintreeLastModified, "partner">>

\* C15, its case: the scenario, with the update landed
C15_Witness ==
  \E i \in 1..Len(results) :
     LET m == results[i].recordId
     IN  /\ SyncPoint(mappings[m]) = <<0, 0, "system">>
         /\ ObservedStamp(partnerMap[m]) > 0
         /\ ObservedStamp(raintreeMap[m]) = 0
         /\ results[i].success
         /\ results[i].syncDirection = "partner-to-raintree"
         /\ raintree[m].LastModifiedDate > 0
         /\ SyncPoint(updatedMappings[m])
              = <<ObservedStamp(partnerMap[m]), 0, "partner">>

\* C16: lastSyncSource names the side of the most recent successful
\* propagate action and is system until one has succeeded: every processed
\* record leaves it as it was, unless its propagate action succeeded, and
\* then it names the winning side.  A failed update leaves it as it was.
C16_LastSyncSourceFollowsSuccess ==
  \A i \in 1..Len(results) :
     updatedMappings[results[i].recordId].lastSyncSource =
        IF results[i].success /\ results[i].syncDirection \in Propagate
          THEN WinningSide(results[i].syncDirection)
          ELSE mappings[results[i].recordId].lastSyncSource

\* C19: the passes of the two kinds are independent in outcome: a pass
\* that has returned its results and mappings has its mappings persisted
\* when the request ends, whatever the pass of the other kind did.
C19_ReturnedPassIsPersisted ==
  [][ (pc = "Done" /\ pc' = "Idle") => store' = updatedMappings ]_vars

\* C17: the pass is the sole writer of the mapping store while it runs:
\* the write that ends a request neither loses a mapping the create
\* workflow added since the request read the store nor brings back one the
\* delete workflow removed.
C17_StoreChangesSurvivePass ==
  [][ (pc = "Done" /\ pc' = "Idle") => DOMAIN store' = DOMAIN store ]_vars

\* a mapping whose stored timestamps do not both parse
Malformed(mapping) ==
  mapping.partnerLastModified = Invalid \/ mapping.raintreeLastModified = Invalid

\* C20: a malformed mapping is skipped by the pass: no remote update is
\* issued for it, its mapping is not rewritten, and the pass does not throw
\* because of it.
C20_MalformedMappingSkipped ==
  \A m \in DOMAIN mappings :
     Malformed(mappings[m]) =>
        /\ updates[m] = [partner |-> 0, raintree |-> 0]
        /\ updatedMappings[m] = mappings[m]

\* C18: the two passes share no mutable state: nothing that one pass
\* writes is read or written by the other.
C18_NoSharedMutableState ==
  \A k \in svcWriters : (svcReaders \cup svcWriters) \subseteq {k}

\* C21: a pass never adds or deletes a mapping and never changes a
\* partnerId or raintreeId: the mapping set it builds has the keys of the
\* set it was given, every mapping keeps its two ids, and ids unique in
\* the input are unique in the output.
C21_PassKeepsKeysAndIds ==
  /\ DOMAIN updatedMappings = DOMAIN mappings
  /\ \A m \in DOMAIN mappings :
        /\ updatedMappings[m].partnerId = mappings[m].partnerId
        /\ updatedMappings[m].raintreeId = mappings[m].raintreeId
  /\ \A m, n \in DOMAIN mappings :
        ( /\ m # n
          /\ mappings[m].partnerId # mappings[n].partnerId
          /\ mappings[m].raintreeId # mappings[n].raintreeId )
        => /\ updatedMappings[m].partnerId # updatedMappings[n].partnerId
           /\ updatedMappings[m].raintreeId # updatedMappings[n].raintreeId

\* C21, its case: a finished pass that rewrote the mappings of two pairs,
\* one of them propagated
C21_Witness ==
  /\ pc = "Done"
  /\ Len(results) = 2
  /\ \E i \in 1..Len(results) : results[i].syncDirection \in Propagate
  /\ \A m \in DOMAIN mappings : updatedMappings[m] # mappings[m]

\* every mapped pair holds the same field values on both sides
Converged ==
  \A m \in DOMAIN store :
     (partner[m].exists /\ raintree[m].exists) => partner[m].val = raintree[m].val

\* C22: convergence.  With every remote call succeeding and the edits
\* finitely many, the passes bring the two records of every mapped pair to
\* the same field values, and they stay so.
C22_EventuallyConverged ==
  <>[]Converged

\* the one side the running pass sees changed for mapping m, or "none"
OnlyChanged(m) ==
  LET p == Later(ObservedStamp(partnerMap[m]), mappings[m].partnerLastModified)
      r == Later(ObservedStamp(raintreeMap[m]), mappings[m].raintreeLastModified)
  IN  IF p /\ ~r THEN "partner" ELSE IF r /\ ~p THEN "raintree" ELSE "none"

\* C23: an edit the guard suppressed stays suppressed only until the next
\* change: when the pass before answered none for a genuinely edited side
\* and that side alone was edited again since, this pass propagates from it.
C23_SuppressionEndsWithNextEdit ==
  \A m \in watch :
     ( /\ prev.persisted
       /\ prev.guarded[m]
       /\ editedPrev[m]
       /\ OnlyChanged(m) # "none"
       /\ OnlyChanged(m) # mappings[m].lastSyncSource )
     => \A i \in ResultsFor(m) :
           /\ results[i].syncDirection \in Propagate
           /\ WinningSide(results[i].syncDirection) = OnlyChanged(m)

\* C24: completeness.  Once the loop of a pass is past a mapping whose
\* record exists in the Partner org and whose Raintree record was fetched,
\* the pass has reported a SyncResult for it, however many records the
\* Partner org holds.
C24_EveryExistingPairReported ==
  \A m \in DOMAIN mappings :
     (Visited(m) /\ partner[m].exists /\ raintreeMap[m].exists)
     => ResultsFor(m) # {}

\* the phases a pass may go to from each phase
PhaseOrder ==
  { <<"Idle", "FetchingPartner">>,
    <<"FetchingPartner", "FetchingRaintree">>,
    <<"FetchingPartner", "Done">>,           \* no mapping to work on
    <<"FetchingPartner", "Thrown">>,
    <<"FetchingRaintree", "Reconciling">>,
    <<"Reconciling", "Done">>,
    <<"Done", "Idle">>,
    <<"Thrown", "Idle">> }

\* the running pass has made no decision and issued no update yet
NothingDecided ==
  results = <<>> /\ updates = NoUpdates /\ updatedMappings = mappings

\* C25: phase order.  A pass goes through Idle, FetchingPartner,
\* FetchingRaintree, Reconciling, Done in this order: while the Partner bulk
\* fetch runs no Raintree record has been fetched, until the last Raintree
\* fetch no decision is made and no update issued, and once the pass
\* reconciles it fetches nothing any more.
C25_PhasesInOrder ==
  /\ [][pc' # pc => <<pc, pc'>> \in PhaseOrder]_vars
  /\ [](pc = "FetchingPartner" =>
          /\ NothingDecided
          /\ \A m \in Ids : partnerMap[m] = NoRecord /\ raintreeMap[m] = NoRecord)
  /\ [](pc = "FetchingRaintree" => NothingDecided)
  /\ [][pc = "Reconciling" =>
          partnerMap' = partnerMap /\ raintreeMap' = raintreeMap]_vars

C25_Witness ==
  /\ pc = "Reconciling"
  /\ idx = 2
  /\ Len(results) = 1
  /\ results[1].syncDirection \in Propagate
  /\ updates[Entries(DOMAIN mappings)[1]] # NoUpdates[Entries(DOMAIN mappings)[1]]
  /\ Fetched(Entries(DOMAIN mappings)[2])

\* C27: a conflict is observable.  When the pass processed a mapping both of
\* whose records had changed since the stored timestamps, its SyncResult or
\* the conflicts count of the summary reports a conflict; the mapping it
\* returns holds no conflict state.
C27_ConflictIsReported ==
  \A m \in DOMAIN mappings : \A i \in ResultsFor(m) :
     ( /\ PartnerHasNewChanges(partnerMap[m], mappings[m])
       /\ RaintreeHasNewChanges(raintreeMap[m], mappings[m]) )
     => /\ \/ results[i].syncDirection = "conflict"
           \/ Summary(results).conflicts >= 1
        /\ updatedMappings[m].lastSyncSource \in {"partner", "raintree", "system"}

\* the record ids of the mappings the loop has processed, in iteration order
Processed ==
  LET all == Entries(DOMAIN mappings)
      upTo == IF pc = "Reconciling" THEN idx - 1 ELSE Len(all)
  IN  SelectSeq(SubSeq(all, 1, upTo), Fetched)

\* C28: the results are one SyncResult per processed mapping, in the
\* iteration order of the mapping set, and the summary partitions them:
\* total is their number, synced the successful ones with a direction,
\* failed the unsuccessful ones, the rest the successful none results.
C28_ResultsAndSummary ==
  pc \in {"Reconciling", "Done"} =>
    /\ [i \in 1..Len(results) |-> results[i].recordId] = Processed
    /\ LET summary == Summary(results)
           okNone == {i \in 1..Len(results) :
                        results[i].success /\ results[i].syncDirection = "none"}
       IN  /\ summary.total = Len(results)
           /\ summary.synced =
                Cardinality({i \in 1..Len(results) :
                               results[i].success /\ results[i].syncDirection # "none"})
           /\ summary.failed =
                Cardinality({i \in 1..Len(results) : ~results[i].success})
           /\ summary.synced + summary.failed + Cardinality(okNone) = summary.total

C28_Witness ==
  /\ pc = "Done"
  /\ Len(results) = 2
  /\ \E i, j \in 1..2 :
        /\ ~results[i].success
        /\ results[j].success /\ results[j].syncDirection \in Propagate

\* C26: field propagation.  After a successful update the synced fields of
\* the losing record (Opportunity: Name, StageName, Amount, CloseDate; Lead:
\* FirstName, LastName, Company, Email, Status) equal the fields observed on
\* the winning record.
C26_LoserTakesObservedFields ==
  patch.pc = "updated" =>
    \A f \in SyncedFields(patch.kind) : patch.loser[f] = patch.winner[f]

\* C29: Partner first, Raintree best effort.  In the create, update and
\* delete workflows the Partner operation is called first; when it fails the
\* request fails and no Raintree operation is called; when it succeeds the
\* request succeeds whatever the Raintree operation does, and a Raintree
\* failure is returned in the errors list.
C29_PartnerFirstRaintreeBestEffort ==
  /\ wf.calls \in {<<>>, <<"partner">>, <<"partner", "raintree">>}
  /\ wf.pc = "responded" =>
       /\ wf.partnerOutcome \in RemoteErrors =>
            /\ ~wf.response.success
            /\ wf.response.status = 500
            /\ wf.calls = <<"partner">>
       /\ wf.partnerOutcome = "ok" =>
            /\ wf.response.success
            /\ wf.response.status \in {200, 201}
       /\ wf.raintreeOutcome \in RemoteErrors =>
            /\ wf.partnerOutcome = "ok"
            /\ wf.response.success
            /\ \E i \in 1..Len(wf.errors) :
                  wf.errors[i] = <<"Raintree sync failed", wf.raintreeOutcome>>

C29_Witness ==
  /\ wf.pc = "responded"
  /\ wf.partnerOutcome = "ok"
  /\ wf.raintreeOutcome \in RemoteErrors
  /\ wf.response.success

\* C30: the update and delete workflows call Raintree only when
\* syncToRaintree is true and a Raintree id is provided; with sync enabled
\* and the id missing no Raintree call is made, the Partner operation takes
\* effect all the same and the response carries an error entry.
C30_RaintreeNeedsSyncAndId ==
  wf.pc # "idle" /\ wf.op \in {"update", "delete"} =>
    /\ (\E i \in 1..Len(wf.calls) : wf.calls[i] = "raintree")
         => wf.syncToRaintree /\ wf.hasRaintreeId
    /\ ( /\ wf.pc = "responded"
         /\ wf.partnerOutcome = "ok"
         /\ wf.syncToRaintree
         /\ ~wf.hasRaintreeId )
       => /\ wf.calls = <<"partner">>
          /\ wf.response.success
          /\ wf.errors = << <<"raintreeId is missing">> >>

C30_Witness ==
  /\ wf.pc = "responded"
  /\ wf.op = "update"
  /\ wf.partnerOutcome = "ok"
  /\ wf.syncToRaintree
  /\ ~wf.hasRaintreeId
  /\ wf.errors # <<>>

\* C31: a mapping is stored only with both ids.  Every stored mapping names
\* a Partner id and a Raintree id, and a record created without a Raintree
\* counterpart (sync not requested, or the Raintree creation failed) has no
\* mapping in the store.
C31_StoredMappingHasBothIds ==
  /\ \A m \in DOMAIN store :
        store[m].partnerId = m /\ store[m].raintreeId \in Ids
  /\ \A m \in Ids :
        (partner[m].exists /\ ~raintree[m].exists) => m \notin DOMAIN store

C31_Witness ==
  /\ partner[2].exists /\ ~raintree[2].exists
  /\ 2 \notin DOMAIN store
  /\ 1 \in DOMAIN store
  /\ pc = "Done"

\* the record of mapping m in an org was genuinely edited after the running
\* pass fetched it, and the step at hand is an update of the pass that
\* changes it
OverwritesEdit(org, fetched, orgAfter, m) ==
  /\ pc = "Reconciling"
  /\ edits' = edits
  /\ fetched[m].exists
  /\ org[m].LastModifiedDate # fetched[m].LastModifiedDate
  /\ orgAfter[m] # org[m]

\* C32: an edit of the losing record made between the fetch of the pass and
\* its update is not lost: the update leaves the edited value in place (the
\* value is then still there for a later pass to propagate or report).
C32_LateEditNotOverwritten ==
  [][\A m \in DOMAIN mappings :
        /\ OverwritesEdit(raintree, raintreeMap, raintree', m)
             => raintree'[m].val = raintree[m].val
        /\ OverwritesEdit(partner, partnerMap, partner', m)
             => partner'[m].val = partner[m].val]_vars

\* C33: an edit through the update workflow leaves the pair in sync.  When
\* the pass processes a mapping that was edited through the workflow since
\* the fetch of the pass before, and fetched its two records with the same
\* values, the result is none and no remote update is issued.
C33_WorkflowEditIsNoOp ==
  \A m \in watch : \A i \in ResultsFor(m) :
     ( /\ editedPrev[m]
       /\ ~editedCur[m]
       /\ partnerMap[m].val = raintreeMap[m].val )
     => /\ results[i].syncDirection = "none"
        /\ updates[m] = NoUpdates[m]

\* C34: a deleted pair has no mapping.  Once the delete workflow has deleted
\* the records of a mapped pair, the store holds no mapping for that Partner
\* id, for either kind, also after a later sync request has ended.
C34_DeletedPairHasNoMapping ==
  \A m \in Ids :
     (~partner[m].exists /\ ~raintree[m].exists) => m \notin DOMAIN store

\* the running pass fetched the Partner (Raintree) record of mapping m with
\* a timestamp later than the stored one
PartnerSideChanged(m) ==
  Later(ObservedStamp(partnerMap[m]), mappings[m].partnerLastModified)

RaintreeSideChanged(m) ==
  Later(ObservedStamp(raintreeMap[m]), mappings[m].raintreeLastModified)

\* C35: lastSyncSource.  It never returns to system once it has left it; a
\* pass turns it from partner to raintree, or from raintree to partner, only
\* when both sides changed; while it is partner a pass in which only
\* Raintree changed is a NoOp without any update, and likewise for raintree.
C35_LastSyncSourceSteps ==
  /\ [][\A m \in DOMAIN store \cap DOMAIN store' :
           store[m].lastSyncSource # "system"
             => store'[m].lastSyncSource # "system"]_vars
  /\ [](\A m \in DOMAIN mappings :
           LET before == mappings[m].lastSyncSource
               after == updatedMappings[m].lastSyncSource
           IN  /\ before # "system" => after # "system"
               /\ (before # "system" /\ after # before)
                    => PartnerSideChanged(m) /\ RaintreeSideChanged(m)
               /\ \A i \in ResultsFor(m) :
                     ( \/ /\ before = "partner"
                          /\ RaintreeSideChanged(m) /\ ~PartnerSideChanged(m)
                       \/ /\ before = "raintree"
                          /\ PartnerSideChanged(m) /\ ~RaintreeSideChanged(m) )
                     => /\ results[i].syncDirection = "none"
                        /\ updates[m] = NoUpdates[m])

C35_Witness ==
  /\ pc = "Done"
  /\ mappings[1].lastSyncSource = "partner"
  /\ updatedMappings[1].lastSyncSource = "raintree"
  /\ PartnerSideChanged(1) /\ RaintreeSideChanged(1)
  /\ results[1].success

\* C36: a failed request leaves the store alone.  When a sync request ends
\* in an error (the backend answered with an error status, or the request
\* threw), the stored mappings are those the request read when it started.
C36_FailedRequestKeepsStore ==
  [][ (pc \in {"Done", "Thrown"} /\ pc' = "Idle" /\ ~prev'.persisted)
        => store' = store /\ store' = mappings ]_vars

C36_Witness ==
  /\ pc = "Idle"
  /\ ~prev.persisted
  /\ prev.dir[1] \in Propagate
  /\ prev.ok[1]
  /\ store[1].lastSyncSource = "system"
  /\ partner[1].val = raintree[1].val

\* C37: the Raintree singleton.  However many Raintree calls start before
\* the first login has returned, at most one login is under way, and the
\* instance once cached stays the cached one (reset is never called).
C37_OneLoginOneInstance ==
  /\ [](Cardinality({k \in Kinds : svcPc[k] = "authenticating"}) <= 1)
  /\ [][service # "none" => service' = service]_vars

=============================================================================
